---- MODULE Spec2Model ----
(***************************************************************************)
(* A model of the Censor interception library (src/src/censor.js).         *)
(*                                                                         *)
(* The host's heap is modelled explicitly: every object has own properties *)
(* (data or accessor descriptors) and a prototype link, functions are      *)
(* closure records that carry what the JavaScript closure captures, and    *)
(* contexts (CensorContext) live in a heap of their own because the code   *)
(* shares and mutates them.  A synchronous JavaScript call is evaluated by *)
(* the abstract machine Run; an asynchronous handle becomes a task         *)
(* that later actions resume.                                              *)
(***************************************************************************)
EXTENDS Integers, Sequences, FiniteSets, TLC

VARIABLES eng, own, slot, listeners, ctxs, tasks, tpls, globals, last, hist

vars == <<eng, own, slot, listeners, ctxs, tasks, tpls, globals, last, hist>>

(***************************************************************************)
(* Bounds of the model.                                                    *)
(***************************************************************************)
\* external operations (registrations, calls, dispatches) in one behaviour
MaxOps == 4
\* asynchronous handle invocations that may be in flight in one behaviour
MaxTasks == 2
\* depth of the host's call stack; a deeper call raises RangeError
MaxStack == 8

(***************************************************************************)
(* JavaScript values.                                                      *)
(***************************************************************************)
Undef == [k |-> "undefined"]
Null == [k |-> "null"]
Num(n) == [k |-> "number", n |-> n]
Str(s) == [k |-> "string", s |-> s]
Obj(id) == [k |-> "object", id |-> id]
\* a promise that fulfils with v once the host gets to it
Promise(v) == [k |-> "promise", v |-> v]
\* the promise an async wrapper of whenCall hands to its caller
TaskPromise(t) == [k |-> "promise", task |-> t]

\* typeof
TypeOf(v) ==
  CASE v.k = "undefined" -> "undefined"
    [] v.k = "number" -> "number"
    [] v.k = "string" -> "string"
    [] v.k = "function" -> "function"
    [] OTHER -> "object"

\* v instanceof Object
InstanceOfObject(v) == v.k \in {"function", "object", "promise", "ret", "xformed"}

\* CensorObject.typeCheck: TRUE when it returns, FALSE when it throws TypeError
typeCheck(obj, typ) == TypeOf(obj) = typ

Arg(args, i) == IF i <= Len(args) THEN args[i] ELSE Undef

(***************************************************************************)
(* Functions of the host and of the caller.                                *)
(***************************************************************************)
\* a method the target's class defines; name "fetch" is asynchronous
Native(name) == [k |-> "function", fn |-> "native", name |-> name]
NativeGet(name) == [k |-> "function", fn |-> "nativeGet", name |-> name]
NativeSet(name) == [k |-> "function", fn |-> "nativeSet", name |-> name]
Class(name) == [k |-> "function", fn |-> "class", name |-> name]
\* a listener of the caller
Listener(name) == [k |-> "function", fn |-> "listener", name |-> name]
\* a handle of the caller; kind says what its body does:
\*   pass    (ctx) => ctx.pass()
\*   replace (ctx) => 0                      (never reaches the original)
\*   xform   async (ctx) => { var r = await ctx.pass(); return T(r) }
\*   late    async (ctx) => { await tick; return ctx.pass() }
\*   twice   (ctx) => { ctx.pass(); return ctx.pass() }
\*   swap    (ctx) => { ctx.args[0] = 9; return ctx.pass() }
\*   next    (ctx) => ctx.next(8)
Handle(id, kind) ==
  [k |-> "function", fn |-> "handle", id |-> id, kind |-> kind,
   async |-> kind \in {"xform", "late"}]

\* what the original method `name` returns for `args`
OrigResult(name, args) == [k |-> "ret", by |-> name, args |-> args]
\* the transformation an xform handle applies to the value it awaited
Transform(r) == [k |-> "xformed", from |-> r]
\* await v
Await(v) == IF v.k = "promise" /\ "v" \in DOMAIN v THEN v.v ELSE v

(***************************************************************************)
(* The heap: objects, prototype links, property descriptors.               *)
(***************************************************************************)
\* the instances the replacement constructors may build, in the order built
NewIds == <<"n1", "n2">>
\* the instances of the class C: the one the page holds from the start, and
\* the ones built later
Instances == {"inst"} \cup {NewIds[i] : i \in 1..Len(NewIds)}
ObjIds == Instances \cup {"protoC", "protoB", "ObjectProto"}

\* a hierarchy deeper than the default search depth: the instance c0 of a
\* class that extends ten others, level by level
ChainIds == <<"c0", "c1", "c2", "c3", "c4", "c5", "c6", "c7", "c8", "c9", "c10", "c11">>
\* the position of a level in the hierarchy of c0, c0 itself at 0
ChainPos(id) == (CHOOSE i \in 1..Len(ChainIds) : ChainIds[i] = id) - 1
\* whether id is a level of that hierarchy
InChain(id) == \E i \in 1..Len(ChainIds) : ChainIds[i] = id

\* Object.getPrototypeOf; the links never change.  "plain" is an object
\* literal: its prototype is Object.prototype
Proto(id) ==
  CASE id \in Instances -> "protoC"
    [] id = "protoC" -> "protoB"
    [] id = "protoB" -> "ObjectProto"
    [] id = "plain" -> "ObjectProto"
    [] InChain(id) /\ id # ChainIds[Len(ChainIds)] -> ChainIds[ChainPos(id) + 2]
    [] id = ChainIds[Len(ChainIds)] -> "ObjectProto"
    [] OTHER -> "none"

DataProp(v) ==
  [d |-> "data", value |-> v, get |-> Undef, set |-> Undef, configurable |-> TRUE,
   writable |-> TRUE]
AccProp(g, s, conf) ==
  [d |-> "accessor", value |-> Undef, get |-> g, set |-> s, configurable |-> conf,
   writable |-> FALSE]
\* no property; also the null that getPropertyDescriptor returns
NoProp ==
  [d |-> "none", value |-> Undef, get |-> Undef, set |-> Undef, configurable |-> FALSE,
   writable |-> FALSE]

\* the legacy event slots of the host, "on" + event
Events == {"click", "key"}
LegacySlots == {"on" \o e : e \in Events}

InitOwn ==
  [id \in ObjIds |->
     CASE id = "ObjectProto" -> ("constructor" :> DataProp(Class("Object")))
       [] id = "protoB" ->
            ("constructor" :> DataProp(Class("B")))
            @@ ("addEventListener" :> DataProp(Native("addEventListener")))
            @@ [s \in LegacySlots |-> AccProp(NativeGet(s), NativeSet(s), TRUE)]
       [] id = "protoC" ->
            ("constructor" :> DataProp(Class("C")))
            @@ ("m" :> DataProp(Native("m")))
            @@ ("fetch" :> DataProp(Native("fetch")))
            @@ ("get_x" :> DataProp(Native("get_x")))
            @@ ("x" :> AccProp(NativeGet("x"), NativeSet("x"), TRUE))
       [] id = "inst" -> ("d" :> DataProp(Num(7)))
       [] OTHER -> <<>>]

\* the internal slots behind the native accessors of an instance
InitSlot == [id \in Instances |-> [s \in LegacySlots \cup {"x"} |-> IF s = "x" THEN Num(0) ELSE Null]]

\* the descriptor a property read finds: own first, then up the prototype chain
RECURSIVE Lookup(_, _, _)
Lookup(o, id, key) ==
  IF id = "none" THEN NoProp
  ELSE IF key \in DOMAIN o[id] THEN o[id][key]
  ELSE Lookup(o, Proto(id), key)

\* obj.hasOwnProperty(key)
hasOwnProperty(o, id, key) == key \in DOMAIN o[id]

\* the search depth getPropertyDescriptor uses when it is given none
DefaultMaxDepth == 10

\* CensorObject.getPropertyDescriptor(obj, name, maxdepth), from depth on;
\* d = "throw" stands for the TypeError of reading .constructor of null
RECURSIVE getPropertyDescriptorFrom(_, _, _, _, _)
getPropertyDescriptorFrom(o, id, name, maxdepth, depth) ==
  IF id = "none" THEN [NoProp EXCEPT !.d = "throw"]
  ELSE IF Lookup(o, id, "constructor").value # Class("Object") /\ depth <= maxdepth
  THEN IF hasOwnProperty(o, id, name) THEN o[id][name]
       ELSE getPropertyDescriptorFrom(o, Proto(id), name, maxdepth, depth + 1)
  ELSE NoProp

getPropertyDescriptor(o, id, name, maxdepth) ==
  getPropertyDescriptorFrom(o, id, name, maxdepth, 0)

\* the descriptor object whenAttr hands to Object.defineProperty
NewDesc(hasGet, get, hasSet, set) ==
  [hasGet |-> hasGet, get |-> get, hasSet |-> hasSet, set |-> set]

\* Object.defineProperty(obj, key, desc) for a desc with at most get and set:
\* the properties after it, or ok = FALSE for its TypeError
DefineProperty(o, id, key, desc) ==
  LET accessor == desc.hasGet \/ desc.hasSet
      old == IF key \in DOMAIN o[id] THEN o[id][key] ELSE NoProp
      put(d) == [ok |-> TRUE, own |-> [o EXCEPT ![id] = (key :> d) @@ @]]
      same == [ok |-> TRUE, own |-> o]
      fail == [ok |-> FALSE, own |-> o]
  IN
  CASE old.d = "none" /\ accessor ->
         put(AccProp(IF desc.hasGet THEN desc.get ELSE Undef,
                     IF desc.hasSet THEN desc.set ELSE Undef, FALSE))
    [] old.d = "none" ->
         put([DataProp(Undef) EXCEPT !.configurable = FALSE, !.writable = FALSE])
    [] ~accessor -> same
    [] old.configurable /\ old.d = "data" ->
         put(AccProp(IF desc.hasGet THEN desc.get ELSE Undef,
                     IF desc.hasSet THEN desc.set ELSE Undef, TRUE))
    [] old.configurable ->
         put(AccProp(IF desc.hasGet THEN desc.get ELSE old.get,
                     IF desc.hasSet THEN desc.set ELSE old.set, TRUE))
    [] old.d = "data" -> fail
    [] (desc.hasGet /\ desc.get # old.get) \/ (desc.hasSet /\ desc.set # old.set) -> fail
    [] OTHER -> same

(***************************************************************************)
(* Evaluation state and results.                                           *)
(***************************************************************************)
\* one invocation of a native, a handle or a listener, as the log keeps it
Event(ev, who, args) == [ev |-> ev, who |-> who, args |-> args]

R(st, ret, err) == [st |-> st, ret |-> ret, err |-> err]
Ok(st, ret) == R(st, ret, "none")
Throw(st, e) == R(st, Undef, e)
Logged(st, e) == [st EXCEPT !.log = Append(@, e)]

\* references to a context: one of the heap (shared), or one held inline by the
\* only closure that can reach it
HeapCtx(i) == [heap |-> TRUE, id |-> i, args |-> <<>>, callback |-> Undef]
InlineCtx(args, callback) == [heap |-> FALSE, id |-> 0, args |-> args, callback |-> callback]
CtxArgs(c, st) == IF c.heap THEN st.ctxs[c.id].args ELSE c.args
CtxCallback(c, st) == IF c.heap THEN st.ctxs[c.id].callback ELSE c.callback

\* new CensorContext(parent, name), with its callback
NewCtx(st, name, callback) ==
  [st EXCEPT !.ctxs = Append(@, [name |-> name, args |-> <<>>, callback |-> callback])]

\* the shadow-archive key of a call interception
CallKey(name) == "_CENSOR_" \o name
\* the shadow-archive keys of an attribute interception
GetKey(name) == "_CENSOR_get_" \o name
SetKey(name) == "_CENSOR_set_" \o name

\* the record of handles handed to whenAttr
Handles(hasGet, get, hasSet, set) ==
  [k |-> "handles", hasGet |-> hasGet, get |-> get, hasSet |-> hasSet, set |-> set]
\* the event object the host hands to listeners
EventObj(type) == [k |-> "event", type |-> type]

\* a task: one invocation of an asynchronous handle.  stage is
\*   started   the handle is suspended before its pass()       (late)
\*   awaiting  the handle called pass() and awaits its result  (xform)
\*   done      the handle's own promise is fulfilled with hvalue
\*   resolved  the async wrapper's promise is fulfilled with value
\*   rejected  the handle threw
NewTask(h, c, args, stage, orig) ==
  [h |-> h.id, kind |-> h.kind, c |-> c, args |-> args, stage |-> stage,
   orig |-> orig, passed |-> <<>>, hvalue |-> Undef, value |-> Undef,
   wrapped |-> FALSE]

(***************************************************************************)
(* The evaluator: an abstract machine for one synchronous run of           *)
(* JavaScript.  A configuration holds the evaluation state st, the stack k *)
(* of continuation frames (top first; every activation of a function of    *)
(* the library or of the caller has a frame) and the control c: either a   *)
(* request to evaluate or a value (or exception) being returned.           *)
(***************************************************************************)
Go(st, k, c) == [st |-> st, k |-> k, c |-> c]
Ret(v) == [t |-> "ret", v |-> v, err |-> "none"]
Err(e) == [t |-> "ret", v |-> Undef, err |-> e]
ApplyC(fv, self, args) == [t |-> "apply", fv |-> fv, self |-> self, args |-> args]
GetC(id, key) == [t |-> "get", id |-> id, key |-> key]
SetC(id, key, v) == [t |-> "set", id |-> id, key |-> key, v |-> v]
HandleC(h, ctx, args, wrapped) ==
  [t |-> "handle", h |-> h, ctx |-> ctx, args |-> args, wrapped |-> wrapped]
WhenCallC(object, name, handle) ==
  [t |-> "whenCall", object |-> object, name |-> name, handle |-> handle]
WhenAttrC(object, name, handles) ==
  [t |-> "whenAttr", object |-> object, name |-> name, handles |-> handles]
OnC(object, event, handle) ==
  [t |-> "on", object |-> object, event |-> event, handle |-> handle]
\* new fv(...args)
ConstructC(fv, args) == [t |-> "new", fv |-> fv, args |-> args]

Push(fr, k) == <<fr>> \o k
\* the frame of an activation whose result is the result of its last call
Act == [f |-> "tail"]
\* the frame of an activation that returns v after its last call
Const(v) == [f |-> "const", v |-> v]
\* what a registration returns: the engine, for chaining
This == [k |-> "this"]

\* the host's own functions, called with this = self
NativeCall(fv, self, args, st) ==
  LET st1 == Logged(st, Event(fv.fn, fv.name, args)) IN
  IF self \notin DOMAIN st.slot THEN Throw(st, "TypeError")
  ELSE CASE fv.fn = "native" /\ fv.name = "fetch" ->
              Ok(st1, Promise(OrigResult(fv.name, args)))
         [] fv.fn = "native" /\ fv.name = "addEventListener" ->
              LET entry == [type |-> Arg(args, 1), listener |-> Arg(args, 2)] IN
              IF entry.listener.k # "function"
                   \/ \E i \in 1..Len(st.listeners[self]) : st.listeners[self][i] = entry
              THEN Ok(st1, Undef)
              ELSE Ok([st1 EXCEPT !.listeners[self] = Append(@, entry)], Undef)
         [] fv.fn = "native" -> Ok(st1, OrigResult(fv.name, args))
         [] fv.fn = "nativeGet" -> Ok(st1, st.slot[self][fv.name])
         [] fv.fn = "nativeSet" ->
              LET v == Arg(args, 1)
                  kept == IF fv.name \in LegacySlots /\ v.k # "function" THEN Null ELSE v
              IN Ok([st1 EXCEPT !.slot[self][fv.name] = kept], Undef)

\* obj[key]
DoGet(st, k, c) ==
  LET d == Lookup(st.own, c.id, c.key) IN
  CASE d.d = "data" -> Go(st, k, Ret(d.value))
    [] d.d = "accessor" /\ d.get.k = "function" -> Go(st, k, ApplyC(d.get, c.id, <<>>))
    [] OTHER -> Go(st, k, Ret(Undef))

\* obj[key] = v, in strict code
DoSet(st, k, c) ==
  LET d == Lookup(st.own, c.id, c.key) IN
  CASE d.d = "accessor" /\ d.set.k = "function" ->
         Go(st, Push(Const(c.v), k), ApplyC(d.set, c.id, <<c.v>>))
    [] d.d = "accessor" -> Go(st, k, Err("TypeError"))
    [] d.d = "data" /\ ~d.writable -> Go(st, k, Err("TypeError"))
    [] d.d = "data" /\ hasOwnProperty(st.own, c.id, c.key) ->
         Go([st EXCEPT !.own[c.id][c.key].value = c.v], k, Ret(c.v))
    [] OTHER -> Go([st EXCEPT !.own[c.id] = (c.key :> DataProp(c.v)) @@ @], k, Ret(c.v))

\* a variant of call that returns without reaching the archive
callSuppressed(st, k, fv, args) == Go(st, k, Ret(Undef))

\* a variant of call that reads the visible member instead of the archive
callVisible(st, k, fv, args) ==
  Go(st, Push([f |-> "applyWith", self |-> fv.obj, args |-> args], Push(Act, k)),
     GetC(fv.obj, fv.name))

\* CensorObject.call, the body of the callback whenCall gives its context
call(st, k, fv, args) ==
  Go(st, Push([f |-> "applyWith", self |-> fv.obj, args |-> args], Push(Act, k)),
     GetC(fv.obj, CallKey(fv.name)))

\* a variant of next that forwards the context's arguments, not its own
CtxNextCtxArgs(c, st, args) == ApplyC(CtxCallback(c, st), "none", CtxArgs(c, st))

\* CensorContext.next(...args) on the context c
CtxNext(c, st, args) == ApplyC(CtxCallback(c, st), "none", args)

\* a variant of pass that forwards no arguments
CtxPassNoArgs(c, st) == ApplyC(CtxCallback(c, st), "none", <<>>)

\* CensorContext.pass on the context c
CtxPass(c, st) == CtxNext(c, st, CtxArgs(c, st))

\* the replacement function whenCall installs (f), called with args
CallWrapper(st, k, fv, args) ==
  Go([st EXCEPT !.ctxs[fv.ctx].args = args], Push(Act, k),
     HandleC(fv.handle, HeapCtx(fv.ctx), args, fv.async))

\* CensorObject.getAttr, the body of the callback of a get interception
getAttr(st, k, fv) ==
  Go(st, Push([f |-> "applyWith", self |-> fv.obj, args |-> <<>>], Push(Act, k)),
     GetC(fv.obj, GetKey(fv.name)))

\* a variant of setAttr that forwards no value to the original setter
setAttrNoValue(st, k, fv, args) ==
  Go(st,
     Push([f |-> "applyWith", self |-> fv.obj, args |-> <<>>], Push(Const(Undef), k)),
     GetC(fv.obj, SetKey(fv.name)))

\* CensorObject.setAttr, the body of the callback of a set interception
setAttr(st, k, fv, args) ==
  Go(st,
     Push([f |-> "applyWith", self |-> fv.obj, args |-> <<Arg(args, 1)>>],
          Push(Const(Undef), k)),
     GetC(fv.obj, SetKey(fv.name)))

\* the callbacks whenAttr gives its context
GetOriginalFn(obj, name) ==
  [k |-> "function", fn |-> "getOriginal", obj |-> obj, name |-> name]
SetOriginalFn(obj, name) ==
  [k |-> "function", fn |-> "setOriginal", obj |-> obj, name |-> name]

\* the getter whenAttr installs
GetWrapper(st, k, fv) ==
  Go([st EXCEPT !.ctxs[fv.ctx].args = <<>>,
                !.ctxs[fv.ctx].callback = GetOriginalFn(fv.obj, fv.name)],
     Push(Act, k), HandleC(fv.handles.get, HeapCtx(fv.ctx), <<>>, FALSE))

\* a variant of the setter that gives every delivery a context of its own
SetWrapperOwnCtx(st, k, fv, args) ==
  Go(st, Push(Const(Undef), k),
     HandleC(fv.handles.set,
             InlineCtx(<<Arg(args, 1)>>, SetOriginalFn(fv.obj, fv.name)),
             <<Arg(args, 1)>>, FALSE))

\* the setter whenAttr installs, called with asgn
SetWrapper(st, k, fv, args) ==
  Go([st EXCEPT !.ctxs[fv.ctx].args = <<Arg(args, 1)>>,
                !.ctxs[fv.ctx].callback = SetOriginalFn(fv.obj, fv.name)],
     Push(Const(Undef), k),
     HandleC(fv.handles.set, HeapCtx(fv.ctx), <<Arg(args, 1)>>, FALSE))

\* a variant of the legacy listener that calls internal without the handle
LegacyListenerDirect(st, k, fv, args) ==
  Go(st, Push(Act, k), ApplyC(fv.internal, "none", args))

\* the listener on() stores in the legacy slot in place of internal
LegacyListener(st, k, fv, args) ==
  Go(st, Push(Act, k), HandleC(fv.handle, InlineCtx(args, fv.internal), args, FALSE))

\* the listener on() registers in place of the caller's listener
Substitute(st, k, fv, args) ==
  Go([st EXCEPT !.ctxs[fv.ctx].args = args], Push(Act, k),
     HandleC(fv.handle, HeapCtx(fv.ctx), args, FALSE))

\* fv.call(self, ...args)
DoApply(st, k, c) ==
  IF c.fv.k # "function" THEN Go(st, k, Err("TypeError"))
  ELSE IF Len(k) >= MaxStack THEN Go(st, k, Err("RangeError"))
  ELSE CASE c.fv.fn \in {"native", "nativeGet", "nativeSet"} ->
              LET r == NativeCall(c.fv, c.self, c.args, st) IN
              Go(r.st, k, [t |-> "ret", v |-> r.ret, err |-> r.err])
         [] c.fv.fn = "listener" ->
              Go(Logged(st, Event("listener", c.fv.name, c.args)), k, Ret(Undef))
         [] c.fv.fn = "callOriginal" -> call(st, k, c.fv, c.args)
         [] c.fv.fn = "callWrapper" -> CallWrapper(st, k, c.fv, c.args)
         [] c.fv.fn = "getOriginal" -> getAttr(st, k, c.fv)
         [] c.fv.fn = "setOriginal" -> setAttr(st, k, c.fv, c.args)
         [] c.fv.fn = "getWrapper" -> GetWrapper(st, k, c.fv)
         [] c.fv.fn = "setWrapper" -> SetWrapper(st, k, c.fv, c.args)
         [] c.fv.fn = "legacyListener" -> LegacyListener(st, k, c.fv, c.args)
         [] c.fv.fn = "substitute" -> Substitute(st, k, c.fv, c.args)
         [] c.fv.fn = "class" -> Go(st, k, Err("TypeError"))
         [] c.fv.fn = "replacement" -> Go(st, k, ConstructC(c.fv, c.args))

\* the task of an asynchronous handle that has called pass(), which returned
\* orig or threw err
PassedTask(fr, st, orig, err) ==
  [NewTask(fr.h, fr.ctx, fr.args, IF err = "none" THEN "awaiting" ELSE "rejected", orig)
     EXCEPT !.passed = fr.passed, !.wrapped = fr.wrapped]

LegacyListenerFn(internal, event, handle) ==
  [k |-> "function", fn |-> "legacyListener", internal |-> internal, event |-> event,
   handle |-> handle]
SubstituteFn(ctx, handle) ==
  [k |-> "function", fn |-> "substitute", ctx |-> ctx, handle |-> handle]

\* the set handle on() registers for the legacy slot, called with (ctx, internal)
OnSetHandle(st, k, c) ==
  Go(st, Push(Const(Undef), k),
     ApplyC(CtxCallback(c.ctx, st), "none",
            <<LegacyListenerFn(Arg(c.args, 1), c.h.event, c.h.handle)>>))

\* the call handle on() registers for addEventListener, called with
\* (ctx, type, listener, other)
OnAddHandle(st, k, c) ==
  LET st1 == NewCtx(st, c.h.event, Arg(c.args, 2)) IN
  Go(st1, Push(Const(Undef), k),
     ApplyC(CtxCallback(c.ctx, st1), "none",
            <<Arg(c.args, 1), SubstituteFn(Len(st1.ctxs), c.h.handle), Arg(c.args, 3)>>))

\* ctx.args[0] = v, on the array the context holds
SetFirstArg(c, st, v) ==
  LET old == CtxArgs(c, st)
      new == IF old = <<>> THEN <<v>> ELSE <<v>> \o Tail(old)
  IN [st |-> IF c.heap THEN [st EXCEPT !.ctxs[c.id].args = new] ELSE st,
      ctx |-> IF c.heap THEN c ELSE [c EXCEPT !.args = new]]

\* handle(ctx, ...args)
DoHandle(st, k, c) ==
  IF c.h.k # "function" THEN Go(st, k, Err("TypeError"))
  ELSE IF c.h.fn = "onSetHandle" THEN OnSetHandle(st, k, c)
  ELSE IF c.h.fn = "onAddHandle" THEN OnAddHandle(st, k, c)
  ELSE LET st1 == Logged(st, Event("handle", c.h.id, c.args)) IN
  CASE c.h.fn = "handle" /\ c.h.kind = "pass" -> Go(st1, Push(Act, k), CtxPass(c.ctx, st1))
    [] c.h.fn = "handle" /\ c.h.kind = "replace" -> Go(st1, k, Ret(Num(0)))
    [] c.h.fn = "handle" /\ c.h.kind = "twice" ->
         Go(st1, Push([f |-> "passAgain", ctx |-> c.ctx], Push(Act, k)), CtxPass(c.ctx, st1))
    [] c.h.fn = "handle" /\ c.h.kind = "swap" ->
         LET w == SetFirstArg(c.ctx, st1, Num(9)) IN
         Go(w.st, Push(Act, k), CtxPass(w.ctx, w.st))
    [] c.h.fn = "handle" /\ c.h.kind = "next" ->
         Go(st1, Push(Act, k), CtxNext(c.ctx, st1, <<Num(8)>>))
    [] c.h.fn = "handle" /\ c.h.kind = "late" ->
         LET t == [NewTask(c.h, c.ctx, c.args, "started", Undef) EXCEPT !.wrapped = c.wrapped]
             st2 == [st1 EXCEPT !.tasks = Append(@, t)]
         IN Go(st2, k, Ret(TaskPromise(Len(st2.tasks))))
    [] c.h.fn = "handle" /\ c.h.kind = "xform" ->
         Go(st1,
            Push([f |-> "xformTask", h |-> c.h, ctx |-> c.ctx, args |-> c.args,
                  wrapped |-> c.wrapped, passed |-> CtxArgs(c.ctx, st1)], k),
            CtxPass(c.ctx, st1))

(***************************************************************************)
(* CensorObject                                                            *)
(***************************************************************************)
\* handle[Symbol.toStringTag] === "AsyncFunction"
IsAsync(handle) == "async" \in DOMAIN handle /\ handle.async

\* the wrapper whenCall builds around handle, sharing the context ctx
CallWrapperFn(ctx, handle) ==
  [k |-> "function", fn |-> "callWrapper", ctx |-> ctx, handle |-> handle,
   async |-> IsAsync(handle)]

\* the callback whenCall gives its context
CallOriginalFn(obj, name) ==
  [k |-> "function", fn |-> "callOriginal", obj |-> obj, name |-> name]

\* a variant of the capture test that archives at every registration
NeedsCaptureAlways(o, obj, name) == TRUE

\* whether whenCall archives the member under the shadow key
NeedsCapture(o, obj, name) == ~hasOwnProperty(o, obj, CallKey(name))

\* a variant of the installation that puts the wrapper on the prototype
whenCallInstallOnProto(st, k, fr) ==
  LET st1 == NewCtx(st, fr.name, CallOriginalFn(fr.obj, fr.name))
      f == CallWrapperFn(Len(st1.ctxs), fr.handle)
  IN Go(st1, Push(Const(This), k), SetC(Proto(fr.obj), fr.name, f))

\* whenCall, the rest: the context, the wrapper, and its installation
whenCallInstall(st, k, fr) ==
  LET st1 == NewCtx(st, fr.name, CallOriginalFn(fr.obj, fr.name))
      f == CallWrapperFn(Len(st1.ctxs), fr.handle)
  IN Go(st1, Push(Const(This), k), SetC(fr.obj, fr.name, f))

\* a variant of the checks of whenCall that leaves out the one of the handle
whenCallCheckedNoHandle(st, k, fr, v) ==
  IF ~typeCheck(v, "function") THEN Go(st, k, Err("TypeError"))
  ELSE IF NeedsCapture(st.own, fr.obj, fr.name)
  THEN Go(st, Push([fr EXCEPT !.f = "wcCapture"], k), GetC(fr.obj, fr.name))
  ELSE whenCallInstall(st, k, fr)

\* whenCall, after this.object[name] was read as v: the type checks, then the
\* capture of the original when there is none yet
whenCallChecked(st, k, fr, v) ==
  IF ~typeCheck(v, "function") THEN Go(st, k, Err("TypeError"))
  ELSE IF ~typeCheck(fr.handle, "function") THEN Go(st, k, Err("TypeError"))
  ELSE IF NeedsCapture(st.own, fr.obj, fr.name)
  THEN Go(st, Push([fr EXCEPT !.f = "wcCapture"], k), GetC(fr.obj, fr.name))
  ELSE whenCallInstall(st, k, fr)

\* CensorObject.whenCall(name, handle) on the engine of c.object
whenCall(st, k, c) ==
  IF ~typeCheck(c.name, "string") THEN Go(st, k, Err("TypeError"))
  ELSE IF c.object.k # "object" THEN Go(st, k, Err("TypeError"))
  ELSE Go(st,
          Push([f |-> "wcChecked", obj |-> c.object.id, name |-> c.name.s,
                handle |-> c.handle], k),
          GetC(c.object.id, c.name.s))

GetWrapperFn(ctx, handles, obj, name) ==
  [k |-> "function", fn |-> "getWrapper", ctx |-> ctx, handles |-> handles,
   obj |-> obj, name |-> name]
SetWrapperFn(ctx, handles, obj, name) ==
  [k |-> "function", fn |-> "setWrapper", ctx |-> ctx, handles |-> handles,
   obj |-> obj, name |-> name]

\* whenAttr, the rest: the context, the new accessor, and its definition
whenAttrInstall(st, k, fr) ==
  LET st1 == NewCtx(st, fr.name, Undef)
      ctx == Len(st1.ctxs)
  IN
  IF fr.handles.k # "handles" THEN Go(st1, k, Err("TypeError"))
  ELSE LET desc == NewDesc(fr.handles.hasGet,
                           GetWrapperFn(ctx, fr.handles, fr.obj, fr.name),
                           fr.handles.hasSet,
                           SetWrapperFn(ctx, fr.handles, fr.obj, fr.name))
           dp == DefineProperty(st1.own, fr.obj, fr.name, desc)
       IN IF dp.ok THEN Go([st1 EXCEPT !.own = dp.own], k, Ret(This))
          ELSE Go(st1, k, Err("TypeError"))

\* CensorObject.whenAttr(name, handles) on the engine of c.object
whenAttr(st, k, c) ==
  IF ~typeCheck(c.name, "string") THEN Go(st, k, Err("TypeError"))
  ELSE IF ~typeCheck(c.handles, "object") THEN Go(st, k, Err("TypeError"))
  ELSE IF c.object.k # "object" THEN Go(st, k, Err("TypeError"))
  ELSE LET description ==
             getPropertyDescriptor(st.own, c.object.id, c.name.s, DefaultMaxDepth)
       IN
       IF description.d \in {"none", "throw"} THEN Go(st, k, Err("TypeError"))
       ELSE Go(st,
               Push([f |-> "waSet", obj |-> c.object.id, name |-> c.name.s,
                     handles |-> c.handles, description |-> description], k),
               SetC(c.object.id, SetKey(c.name.s), description.set))

OnSetHandleFn(event, handle) ==
  [k |-> "function", fn |-> "onSetHandle", event |-> event, handle |-> handle]
OnAddHandleFn(event, handle) ==
  [k |-> "function", fn |-> "onAddHandle", event |-> event, handle |-> handle]

\* CensorObject.on(event, handle) on the engine of c.object
on(st, k, c) ==
  IF ~typeCheck(c.event, "string") THEN Go(st, k, Err("TypeError"))
  ELSE IF ~typeCheck(c.handle, "function") THEN Go(st, k, Err("TypeError"))
  ELSE IF c.object.k # "object" THEN Go(st, k, Err("TypeError"))
  ELSE Go(st,
          Push([f |-> "onPrev", object |-> c.object, event |-> c.event.s,
                handle |-> c.handle, prev |-> Undef], k),
          GetC(c.object.id, "on" \o c.event.s))

\* a variant of on() that does not assign the previous listener back
onResumeNoReattach(st, k, fr, v) ==
  CASE fr.f = "onPrev" ->
         Go(st, Push([fr EXCEPT !.f = "onPrevAdd", !.prev = v], k),
            GetC(fr.object.id, "addEventListener"))
    [] fr.f = "onPrevAdd" ->
         Go(st, Push([fr EXCEPT !.f = "onReattach"], k),
            WhenAttrC(fr.object, Str("on" \o fr.event),
                      Handles(FALSE, Undef, TRUE, OnSetHandleFn(fr.event, fr.handle))))
    [] fr.f = "onReattach" ->
         Go(st, Push(Const(This), k),
            WhenCallC(fr.object, Str("addEventListener"),
                      OnAddHandleFn(fr.event, fr.handle)))

\* on(), after a step of it returned v
onResume(st, k, fr, v) ==
  CASE fr.f = "onPrev" ->
         Go(st, Push([fr EXCEPT !.f = "onPrevAdd", !.prev = v], k),
            GetC(fr.object.id, "addEventListener"))
    [] fr.f = "onPrevAdd" ->
         Go(st, Push([fr EXCEPT !.f = "onAttr"], k),
            WhenAttrC(fr.object, Str("on" \o fr.event),
                      Handles(FALSE, Undef, TRUE, OnSetHandleFn(fr.event, fr.handle))))
    [] fr.f = "onAttr" ->
         Go(st, Push([fr EXCEPT !.f = "onReattach"], k),
            SetC(fr.object.id, "on" \o fr.event, fr.prev))
    [] fr.f = "onReattach" ->
         Go(st, Push(Const(This), k),
            WhenCallC(fr.object, Str("addEventListener"),
                      OnAddHandleFn(fr.event, fr.handle)))

(***************************************************************************)
(* CensorClass: the template, its replay and the replacement constructor   *)
(***************************************************************************)
\* the state of a CensorClass: cls, name and the three mappings, each the
\* sequence of entries Object.entries gives for it
Template(cls, name) ==
  [cls |-> cls, name |-> name, calls |-> <<>>, attrs |-> <<>>, events |-> <<>>]

\* mapping[key] = value: a new key goes last, a known one keeps its place
Record(mapping, key, value) ==
  IF \E i \in 1..Len(mapping) : mapping[i].key = key
  THEN [i \in 1..Len(mapping) |->
          IF mapping[i].key = key THEN [key |-> key, value |-> value] ELSE mapping[i]]
  ELSE Append(mapping, [key |-> key, value |-> value])

\* a variant of CensorClass.whenCall that records the handle as an event
\* handle as well
ClassWhenCallAlsoEvent(tp, t, name, handle) ==
  [tp EXCEPT ![t].calls = Record(@, name, handle), ![t].events = Record(@, name, handle)]

\* CensorClass.whenCall(name, handle) on the template t of tp
ClassWhenCall(tp, t, name, handle) == [tp EXCEPT ![t].calls = Record(@, name, handle)]
\* CensorClass.whenAttr(name, handles) on the template t of tp
ClassWhenAttr(tp, t, name, handles) == [tp EXCEPT ![t].attrs = Record(@, name, handles)]
\* CensorClass.on(name, handle) on the template t of tp
ClassOn(tp, t, name, handle) == [tp EXCEPT ![t].events = Record(@, name, handle)]

\* a variant of apply that leaves out the event handles
ApplyPlanNoEvents(tpl, obj) ==
  [i \in 1..Len(tpl.calls) |-> WhenCallC(obj, tpl.calls[i].key, tpl.calls[i].value)]
  \o [i \in 1..Len(tpl.attrs) |-> WhenAttrC(obj, tpl.attrs[i].key, tpl.attrs[i].value)]

\* CensorClass.apply(obj): the registrations it makes on the engine of obj,
\* in the order it makes them
ApplyPlan(tpl, obj) ==
  [i \in 1..Len(tpl.calls) |-> WhenCallC(obj, tpl.calls[i].key, tpl.calls[i].value)]
  \o [i \in 1..Len(tpl.attrs) |-> WhenAttrC(obj, tpl.attrs[i].key, tpl.attrs[i].value)]
  \o [i \in 1..Len(tpl.events) |-> OnC(obj, tpl.events[i].key, tpl.events[i].value)]

\* the function genFunc() of the template t returns
ReplacementFn(t) == [k |-> "function", fn |-> "replacement", tpl |-> t, name |-> ""]

\* whether the instance id was built
Constructed(o, id) == DOMAIN o[id] # {}
\* the instance the next construction builds
NextNew(o) ==
  NewIds[CHOOSE i \in 1..Len(NewIds) :
           /\ ~Constructed(o, NewIds[i])
           /\ \A j \in 1..(i - 1) : Constructed(o, NewIds[j])]

\* the rest of apply(obj): the next registration of todo, then obj
ReplayNext(st, k, obj, todo) ==
  IF todo = <<>> THEN Go(st, k, Ret(obj))
  ELSE Go(st, Push([f |-> "replay", obj |-> obj, todo |-> Tail(todo)], k), Head(todo))

\* new fv(...args): the class C builds an instance that keeps its argument,
\* a replacement constructor builds one of its cls and applies the template
DoConstruct(st, k, c) ==
  IF c.fv.k # "function" THEN Go(st, k, Err("TypeError"))
  ELSE IF Len(k) >= MaxStack THEN Go(st, k, Err("RangeError"))
  ELSE CASE c.fv.fn = "class" ->
              LET id == NextNew(st.own) IN
              Go([st EXCEPT !.own[id] = ("d" :> DataProp(Arg(c.args, 1)))], k, Ret(Obj(id)))
         [] c.fv.fn = "replacement" ->
              Go(st, Push([f |-> "genFuncNew", tpl |-> c.fv.tpl], k),
                 ConstructC(st.tpls[c.fv.tpl].cls, c.args))
         [] OTHER -> Go(st, k, Err("TypeError"))

\* a value v (or an exception) reaches the top frame
Return(st, k, c) ==
  LET fr == Head(k)
      k1 == Tail(k)
  IN
  IF fr.f = "xformTask"
  THEN LET st2 == [st EXCEPT !.tasks = Append(@, PassedTask(fr, st, c.v, c.err))]
       IN Go(st2, k1, Ret(TaskPromise(Len(st2.tasks))))
  ELSE IF c.err # "none" THEN Go(st, k1, c)
  ELSE CASE fr.f = "tail" -> Go(st, k1, c)
         [] fr.f = "const" -> Go(st, k1, Ret(fr.v))
         [] fr.f = "passAgain" -> Go(st, k1, CtxPass(fr.ctx, st))
         [] fr.f = "applyWith" -> Go(st, k1, ApplyC(c.v, fr.self, fr.args))
         [] fr.f = "wcChecked" -> whenCallChecked(st, k1, fr, c.v)
         [] fr.f = "wcCapture" ->
              Go(st, Push([fr EXCEPT !.f = "wcInstall"], k1),
                 SetC(fr.obj, CallKey(fr.name), c.v))
         [] fr.f = "wcInstall" -> whenCallInstall(st, k1, fr)
         [] fr.f = "waSet" ->
              Go(st, Push([fr EXCEPT !.f = "waGet"], k1),
                 SetC(fr.obj, GetKey(fr.name), fr.description.get))
         [] fr.f = "waGet" -> whenAttrInstall(st, k1, fr)
         [] fr.f \in {"onPrev", "onPrevAdd", "onAttr", "onReattach"} ->
              onResume(st, k1, fr, c.v)
         [] fr.f = "genFuncNew" ->
              ReplayNext(st, k1, c.v, ApplyPlan(st.tpls[fr.tpl], c.v))
         [] fr.f = "replay" -> ReplayNext(st, k1, fr.obj, fr.todo)

\* one step of the machine
Step(cfg) ==
  CASE cfg.c.t = "ret" -> Return(cfg.st, cfg.k, cfg.c)
    [] cfg.c.t = "apply" -> DoApply(cfg.st, cfg.k, cfg.c)
    [] cfg.c.t = "get" -> DoGet(cfg.st, cfg.k, cfg.c)
    [] cfg.c.t = "set" -> DoSet(cfg.st, cfg.k, cfg.c)
    [] cfg.c.t = "handle" -> DoHandle(cfg.st, cfg.k, cfg.c)
    [] cfg.c.t = "whenCall" -> whenCall(cfg.st, cfg.k, cfg.c)
    [] cfg.c.t = "whenAttr" -> whenAttr(cfg.st, cfg.k, cfg.c)
    [] cfg.c.t = "on" -> on(cfg.st, cfg.k, cfg.c)
    [] cfg.c.t = "new" -> DoConstruct(cfg.st, cfg.k, cfg.c)

\* the machine runs until a value or an exception leaves the last frame
RECURSIVE Run(_)
Run(cfg) == IF cfg.c.t = "ret" /\ cfg.k = <<>> THEN cfg ELSE Run(Step(cfg))

\* the result of evaluating the request c in the state st
Eval(c, st) == LET e == Run(Go(st, <<>>, c)) IN R(e.st, e.c.v, e.c.err)

\* the result of obj.name(...args) in the state st
CallMember(id, name, args, st) ==
  LET e == Run(Go(st, <<[f |-> "applyWith", self |-> id, args |-> args]>>, GetC(id, name)))
  IN R(e.st, e.c.v, e.c.err)

\* new CensorObject(object): the engine, or a TypeError
NewCensorObject(object) ==
  IF typeCheck(object, "object")
  THEN [err |-> "none", eng |-> [type |-> "CensorObject", object |-> object]]
  ELSE [err |-> "TypeError", eng |-> [type |-> "none", object |-> Undef]]

(***************************************************************************)
(* CensorClass and the dispatcher                                          *)
(***************************************************************************)
\* new CensorClass(cls): the template engine, or a TypeError
NewCensorClass(cls) ==
  IF typeCheck(cls, "function")
  THEN [err |-> "none", eng |-> [type |-> "CensorClass", object |-> cls]]
  ELSE [err |-> "TypeError", eng |-> [type |-> "none", object |-> Undef]]

\* the global object, the default of implementOn
Window == [k |-> "object", id |-> "window"]

\* a variant of the constructor that installs genFunc() on the page's scope
\* even when implementOn is null
CensorClassInitAlways(cls, options, tp, gl) ==
  LET accessName == Arg(options, 1)
      name == IF accessName \in {Null, Undef} THEN cls.name ELSE accessName.s
      tp1 == Append(tp, Template(cls, name))
  IN [tpls |-> tp1, globals |-> (name :> ReplacementFn(Len(tp1))) @@ gl]

\* new CensorClass(cls, accessName, implementOn), after the type check: the
\* new template, and the binding slot it installs genFunc() into
CensorClassInit(cls, options, tp, gl) ==
  LET accessName == Arg(options, 1)
      implementOn == IF Arg(options, 2) = Undef THEN Window ELSE Arg(options, 2)
      name == IF accessName \in {Null, Undef} THEN cls.name ELSE accessName.s
      tp1 == Append(tp, Template(cls, name))
  IN [tpls |-> tp1,
      globals |-> IF implementOn # Null THEN (name :> ReplacementFn(Len(tp1))) @@ gl
                  ELSE gl]

\* censor(obj)
censor(obj) ==
  IF TypeOf(obj) = "object" THEN NewCensorObject(obj)
  ELSE IF InstanceOfObject(obj) THEN NewCensorClass(obj)
  ELSE [err |-> "TypeError", eng |-> [type |-> "none", object |-> Undef]]

(***************************************************************************)
(* The state machine.                                                      *)
(***************************************************************************)
NoEngine == [type |-> "none", object |-> Undef]

\* the outcome of the last step: what it returned or threw, and the natives,
\* handles and listeners it invoked, in order
Last(op, name, args, ret, err, log) ==
  [op |-> op, name |-> name, args |-> args, ret |-> ret, err |-> err, log |-> log]

\* an operation of the caller or the host, as the history keeps it
Op(op, name, args, err) == [op |-> op, name |-> name, args |-> args, err |-> err]

\* the bindings of the page's scope: the class C
InitGlobals == ("C" :> Class("C"))

Init ==
  /\ eng = NoEngine
  /\ own = InitOwn
  /\ slot = InitSlot
  /\ listeners = [id \in Instances |-> <<>>]
  /\ ctxs = <<>>
  /\ tasks = <<>>
  /\ tpls = <<>>
  /\ globals = InitGlobals
  /\ last = Last("init", Undef, <<>>, Undef, "none", <<>>)
  /\ hist = <<>>

\* the state after e = censor(inst)
InitInst ==
  /\ eng = censor(Obj("inst")).eng
  /\ own = InitOwn
  /\ slot = InitSlot
  /\ listeners = [id \in Instances |-> <<>>]
  /\ ctxs = <<>>
  /\ tasks = <<>>
  /\ tpls = <<>>
  /\ globals = InitGlobals
  /\ last = Last("censor", Obj("inst"), <<>>, Undef, "none", <<>>)
  /\ hist = <<>>

\* the heap with the deep hierarchy and the object literal: the levels of S
\* own an accessor p, each its own; plain owns one when pl
LookupOwn(S, pl) ==
  InitOwn @@
  [id \in {ChainIds[i] : i \in 1..Len(ChainIds)} \cup {"plain"} |->
     IF id = "plain"
     THEN IF pl THEN ("p" :> AccProp(NativeGet("plain"), NativeSet("plain"), TRUE)) ELSE <<>>
     ELSE (IF id # "c0" THEN ("constructor" :> DataProp(Class("D"))) ELSE <<>>)
          @@ (IF ChainPos(id) \in S
              THEN ("p" :> AccProp(NativeGet(id), NativeSet(id), TRUE)) ELSE <<>>)]

\* the states getPropertyDescriptor is applied in: at most two levels of the
\* deep hierarchy own p
InitLookup ==
  /\ eng = NoEngine
  /\ own \in {LookupOwn(S, pl) :
                S \in {T \in SUBSET (0..(Len(ChainIds) - 1)) : Cardinality(T) <= 2},
                pl \in BOOLEAN}
  /\ slot = InitSlot
  /\ listeners = [id \in Instances |-> <<>>]
  /\ ctxs = <<>>
  /\ tasks = <<>>
  /\ tpls = <<>>
  /\ globals = InitGlobals
  /\ last = Last("init", Undef, <<>>, Undef, "none", <<>>)
  /\ hist = <<>>

\* the evaluation state an operation starts from
Start ==
  [own |-> own, slot |-> slot, listeners |-> listeners, ctxs |-> ctxs,
   tasks |-> tasks, tpls |-> tpls, log |-> <<>>]

\* the state the operation (op, name, args) leaves when its evaluation is r
Commit(op, name, args, r) ==
  /\ Len(hist) < MaxOps
  /\ Len(r.st.tasks) <= MaxTasks
  /\ own' = r.st.own
  /\ slot' = r.st.slot
  /\ listeners' = r.st.listeners
  /\ ctxs' = r.st.ctxs
  /\ tasks' = r.st.tasks
  /\ UNCHANGED <<tpls, globals>>
  /\ last' = Last(op, name, args, r.ret, r.err, r.st.log)
  /\ hist' = Append(hist, Op(op, name, args, r.err))

\* values handed to censor()
CensorInputs == {Obj("inst"), Null, Undef, Num(1), Class("C")}
\* member names handed to whenCall: two methods, a data member, a non-text name
CallNames == {Str("m"), Str("fetch"), Str("d"), Num(1)}
\* handles handed to whenCall
CallHandles ==
  {Handle("h1", "pass"), Handle("h2", "pass"), Handle("h3", "xform"),
   Handle("h4", "late")}
\* synchronous handles handed to whenCall
SyncHandles ==
  {Handle("h1", "pass"), Handle("h5", "replace"), Handle("h6", "twice"),
   Handle("h7", "swap"), Handle("h8", "next")}
\* argument lists of the calls made on the target
ArgLists == {<<Num(1)>>, <<Num(2), Num(3)>>}
Methods == {"m", "fetch"}
\* attribute names handed to whenAttr: an accessor of the class, a name no
\* level of the hierarchy owns, an own data member
AttrNames == {"x", "z", "d"}
\* records of handles handed to whenAttr
AttrHandles ==
  {Handles(TRUE, Handle("g", "pass"), TRUE, Handle("s", "pass")),
   Handles(FALSE, Undef, TRUE, Handle("s", "pass"))}
\* values written to attributes
AttrValues == {Num(5), Num(6)}
\* handles handed to on()
EventHandles == {Handle("h1", "pass"), Handle("h2", "pass")}

\* e = censor(v, ...options)
CensorWith(v, options) ==
  /\ Len(hist) < MaxOps
  /\ LET c == censor(v)
         made == CensorClassInit(v, options, tpls, globals)
     IN
     /\ eng' = IF c.err = "none" THEN c.eng ELSE eng
     /\ tpls' = IF c.eng.type = "CensorClass" THEN made.tpls ELSE tpls
     /\ globals' = IF c.eng.type = "CensorClass" THEN made.globals ELSE globals
     /\ last' = Last("censor", v, options, Undef, c.err, <<>>)
     /\ hist' = Append(hist, Op("censor", v, options, c.err))
  /\ UNCHANGED <<own, slot, listeners, ctxs, tasks>>

\* e = censor(v)
CensorAct(v) == CensorWith(v, <<>>)

\* e.whenCall(name, handle) on the current Instance Engine
WhenCallAct(name, handle) ==
  /\ eng.type = "CensorObject"
  /\ Commit("whenCall", name, <<handle>>, Eval(WhenCallC(eng.object, name, handle), Start))
  /\ UNCHANGED eng

\* the caller's code runs inst.name(...args)
CallAct(name, args) ==
  /\ Commit("call", Str(name), args, CallMember("inst", name, args, Start))
  /\ UNCHANGED eng

\* the host resumes the suspended handle of task t
ResumeAct(t) ==
  /\ tasks[t].stage \in {"started", "awaiting"}
  /\ LET tk == tasks[t] IN
     IF tk.stage = "awaiting"
     THEN /\ tasks' = [tasks EXCEPT ![t].stage = "done",
                                    ![t].hvalue = Transform(Await(tk.orig))]
          /\ last' = Last("resume", Num(t), <<>>, Undef, "none", <<>>)
          /\ UNCHANGED <<own, slot, listeners, ctxs>>
     ELSE LET r == Eval(CtxPass(tk.c, Start), Start)
              done == [tk EXCEPT !.stage = IF r.err = "none" THEN "done" ELSE "rejected",
                                 !.passed = CtxArgs(tk.c, Start),
                                 !.hvalue = Await(r.ret)]
          IN /\ Len(r.st.tasks) <= MaxTasks
             /\ own' = r.st.own
             /\ slot' = r.st.slot
             /\ listeners' = r.st.listeners
             /\ ctxs' = r.st.ctxs
             /\ tasks' = [r.st.tasks EXCEPT ![t] = done]
             /\ last' = Last("resume", Num(t), <<>>, r.ret, r.err, r.st.log)
  /\ UNCHANGED <<eng, tpls, globals, hist>>

\* a variant of the settlement that fulfils the wrapper's promise with what the
\* original resolved to, as soon as the handle awaits it
SettleEarly(t) ==
  /\ tasks[t].stage = "awaiting"
  /\ tasks[t].wrapped
  /\ tasks' = [tasks EXCEPT ![t].stage = "resolved", ![t].value = Await(tasks[t].orig)]
  /\ last' = Last("settle", Num(t), <<>>, Await(tasks[t].orig), "none", <<>>)
  /\ UNCHANGED <<eng, own, slot, listeners, ctxs, tpls, globals, hist>>

\* the promise of the async wrapper of task t is fulfilled
SettleAct(t) ==
  /\ tasks[t].stage = "done"
  /\ tasks[t].wrapped
  /\ tasks' = [tasks EXCEPT ![t].stage = "resolved", ![t].value = tasks[t].hvalue]
  /\ last' = Last("settle", Num(t), <<>>, tasks[t].hvalue, "none", <<>>)
  /\ UNCHANGED <<eng, own, slot, listeners, ctxs, tpls, globals, hist>>

\* e.whenAttr(name, handles) on the current Instance Engine
WhenAttrAct(name, handles) ==
  /\ eng.type = "CensorObject"
  /\ Commit("whenAttr", Str(name), <<handles>>,
            Eval(WhenAttrC(eng.object, Str(name), handles), Start))
  /\ UNCHANGED eng

\* the caller's code runs inst.name = v
AttrSetAct(name, v) ==
  /\ Commit("set", Str(name), <<v>>, Eval(SetC("inst", name, v), Start))
  /\ UNCHANGED eng

\* the caller's code reads inst.name
AttrGetAct(name) ==
  /\ Commit("get", Str(name), <<>>, Eval(GetC("inst", name), Start))
  /\ UNCHANGED eng

\* e.on(event, handle) on the current Instance Engine
OnAct(event, handle) ==
  /\ eng.type = "CensorObject"
  /\ Commit("on", event, <<handle>>, Eval(OnC(eng.object, event, handle), Start))
  /\ UNCHANGED eng

\* the caller's code runs inst["on" + event] = v
AssignAct(event, v) ==
  /\ Commit("assign", Str(event), <<v>>, Eval(SetC("inst", "on" \o event, v), Start))
  /\ UNCHANGED eng

\* the caller's code runs inst.addEventListener(type, listener)
AddListenerAct(type, listener) ==
  /\ Commit("add", Str(type), <<listener>>,
            CallMember("inst", "addEventListener", <<Str(type), listener>>, Start))
  /\ UNCHANGED eng

\* the host delivers an event through the legacy slot "on" + event
DispatchLegacyAct(event) ==
  /\ slot["inst"]["on" \o event].k = "function"
  /\ Commit("dispatchLegacy", Str(event), <<>>,
            Eval(ApplyC(slot["inst"]["on" \o event], "inst", <<EventObj(event)>>), Start))
  /\ UNCHANGED eng

\* the host delivers an event to the i-th registered listener
DispatchListenerAct(i) ==
  /\ LET l == listeners["inst"][i] IN
     Commit("dispatchListener", l.type, <<Num(i)>>,
            Eval(ApplyC(l.listener, "inst", <<EventObj(l.type.s)>>), Start))
  /\ UNCHANGED eng

\* the search depths handed to getPropertyDescriptor; <<>> leaves the default
DepthArgs == {<<>>, <<Num(0)>>, <<Num(1)>>, <<Num(2)>>}

\* CensorObject.getPropertyDescriptor(id, "p", ...depth)
LookupAct(id, depth) ==
  LET maxdepth == IF depth = <<>> THEN DefaultMaxDepth ELSE depth[1].n
      d == getPropertyDescriptor(own, id, "p", maxdepth)
  IN /\ last' = Last("getPropertyDescriptor", Obj(id), <<Str("p")>> \o depth,
                     IF d.d = "throw" THEN Undef ELSE d,
                     IF d.d = "throw" THEN "TypeError" ELSE "none", <<>>)
     /\ UNCHANGED <<eng, own, slot, listeners, ctxs, tasks, tpls, globals, hist>>

\* options handed to censor() with the class C: none, (null, null) for a
\* manual installation, an access name
ClassOptions == {<<>>, <<Null, Null>>, <<Str("K")>>}
\* handles handed to the whenCall of a template, one of them not callable
ClassCallHandles == {Handle("h1", "pass"), Handle("h2", "pass"), Num(5)}
\* argument lists handed to a constructor
NewArgLists == {<<Num(3)>>}

\* e = censor(C, ...options)
CensorClassAct(options) == CensorWith(Class("C"), options)

\* the state a registration on the template engine leaves
ClassCommit(op, name, arg, tp) ==
  /\ eng.type = "CensorClass"
  /\ Len(hist) < MaxOps
  /\ tpls' = tp
  /\ last' = Last(op, name, <<arg>>, This, "none", <<>>)
  /\ hist' = Append(hist, Op(op, name, <<arg>>, "none"))
  /\ UNCHANGED <<eng, own, slot, listeners, ctxs, tasks, globals>>

\* e.whenCall(name, handle) on the current template engine
ClassWhenCallAct(name, handle) ==
  ClassCommit("classWhenCall", name, handle, ClassWhenCall(tpls, Len(tpls), name, handle))

\* e.whenAttr(name, handles) on the current template engine
ClassWhenAttrAct(name, handles) ==
  ClassCommit("classWhenAttr", name, handles, ClassWhenAttr(tpls, Len(tpls), name, handles))

\* e.on(name, handle) on the current template engine
ClassOnAct(name, handle) ==
  ClassCommit("classOn", name, handle, ClassOn(tpls, Len(tpls), name, handle))

\* the page runs C = e.genFunc()
GenFuncAct ==
  /\ eng.type = "CensorClass"
  /\ Len(hist) < MaxOps
  /\ globals' = [globals EXCEPT !["C"] = ReplacementFn(Len(tpls))]
  /\ last' = Last("genFunc", Str("C"), <<>>, ReplacementFn(Len(tpls)), "none", <<>>)
  /\ hist' = Append(hist, Op("genFunc", Str("C"), <<>>, "none"))
  /\ UNCHANGED <<eng, own, slot, listeners, ctxs, tasks, tpls>>

\* the page runs new b(...args), b a name of its scope
NewAct(b, args) ==
  /\ \E i \in 1..Len(NewIds) : ~Constructed(own, NewIds[i])
  /\ Commit("new", Str(b), args, Eval(ConstructC(globals[b], args), Start))
  /\ UNCHANGED eng

\* the page runs id.name(...args) on an instance that was built
CallOnAct(id, name, args) ==
  /\ Constructed(own, id)
  /\ Commit("callOn", Str(name), <<Obj(id)>> \o args, CallMember(id, name, args, Start))
  /\ UNCHANGED eng

\* the dispatcher, and the type checks of a registration
Next ==
  \/ \E v \in CensorInputs : CensorAct(v)
  \/ \E name \in CallNames, handle \in {Handle("h1", "pass"), Num(5)} :
       WhenCallAct(name, handle)
  \/ \E name \in Methods : CallAct(name, <<Num(1)>>)

Spec == Init /\ [][Next]_vars

\* call interception
NextCall ==
  \/ \E name \in Methods, handle \in CallHandles : WhenCallAct(Str(name), handle)
  \/ \E name \in Methods, args \in ArgLists : CallAct(name, args)
  \/ \E t \in 1..Len(tasks) : ResumeAct(t)
  \/ \E t \in 1..Len(tasks) : SettleAct(t)

SpecCall == InitInst /\ [][NextCall]_vars

\* synchronous handles that replace, repeat or redirect the original
NextHandle ==
  \/ \E name \in Methods, handle \in SyncHandles : WhenCallAct(Str(name), handle)
  \/ \E name \in Methods, args \in ArgLists : CallAct(name, args)

SpecHandle == InitInst /\ [][NextHandle]_vars

\* an attribute and a method whose name is the attribute's with a get_ prefix
NextKeys ==
  \/ WhenAttrAct("x", Handles(TRUE, Handle("g", "pass"), TRUE, Handle("s", "pass")))
  \/ WhenCallAct(Str("get_x"), Handle("h1", "pass"))
  \/ CallAct("get_x", <<Num(1)>>)
  \/ AttrGetAct("x")

SpecKeys == InitInst /\ [][NextKeys]_vars

\* on() with arguments and targets it rejects: an event that is no text, an
\* event without a legacy slot, a handle that is not callable, a target whose
\* addEventListener the page replaced with null
NextOnFail ==
  \/ \E event \in {Str("click"), Str("zzz"), Num(1)}, handle \in {Handle("h1", "pass"), Num(5)} :
       OnAct(event, handle)
  \/ AttrSetAct("addEventListener", Null)

SpecOnFail == InitInst /\ [][NextOnFail]_vars

\* an attribute whose set handle suspends before it passes
NextShared ==
  \/ WhenAttrAct("x", Handles(TRUE, Handle("g", "pass"), TRUE, Handle("s4", "late")))
  \/ \E v \in AttrValues : AttrSetAct("x", v)
  \/ AttrGetAct("x")
  \/ \E t \in 1..Len(tasks) : ResumeAct(t)

SpecShared == InitInst /\ [][NextShared]_vars

\* the descriptor lookup, on the deep hierarchy and on the object literal
NextLookup == \E id \in {"c0", "plain"}, depth \in DepthArgs : LookupAct(id, depth)

SpecLookup == InitLookup /\ [][NextLookup]_vars

\* attribute interception
NextAttr ==
  \/ \E name \in AttrNames, handles \in AttrHandles : WhenAttrAct(name, handles)
  \/ \E name \in AttrNames, v \in AttrValues : AttrSetAct(name, v)
  \/ \E name \in AttrNames : AttrGetAct(name)

SpecAttr == InitInst /\ [][NextAttr]_vars

\* event interception
NextEvent ==
  \/ \E event \in Events, handle \in EventHandles : OnAct(Str(event), handle)
  \/ \E event \in Events, v \in {Listener("L1"), Null} : AssignAct(event, v)
  \/ \E type \in Events : AddListenerAct(type, Listener("L2"))
  \/ \E event \in Events : DispatchLegacyAct(event)
  \/ \E i \in 1..Len(listeners["inst"]) : DispatchListenerAct(i)

SpecEvent == InitInst /\ [][NextEvent]_vars

\* class templates
NextClass ==
  \/ \E options \in ClassOptions : CensorClassAct(options)
  \/ \E handle \in ClassCallHandles : ClassWhenCallAct(Str("m"), handle)
  \/ ClassWhenAttrAct(Str("x"), Handles(TRUE, Handle("g", "pass"), TRUE, Handle("s", "pass")))
  \/ \E event \in Events : ClassOnAct(Str(event), Handle("h1", "pass"))
  \/ GenFuncAct
  \/ \E b \in DOMAIN globals, args \in NewArgLists : NewAct(b, args)
  \/ \E i \in 1..Len(NewIds) : CallOnAct(NewIds[i], "m", <<Num(1)>>)

SpecClass == Init /\ [][NextClass]_vars

(***************************************************************************)
(* Properties.  They are stated over the history of operations (hist), the *)
(* outcome of the last one (last) and the target (own, slot, listeners).   *)
(***************************************************************************)
\* the evaluation state before any interception
PreInterception ==
  [own |-> InitOwn, slot |-> InitSlot, listeners |-> [id \in Instances |-> <<>>],
   ctxs |-> <<>>, tasks |-> <<>>, tpls |-> <<>>, log |-> <<>>]
\* what calling the member n with args does on the target nobody intercepted
Unwrapped(n, args) == CallMember("inst", n, args, PreInterception)
\* the member n as the target held it before any registration
InitialMember(n) == Lookup(InitOwn, "inst", n).value
\* the operations of kind op on name that the history holds, oldest first
OpsOn(op, name) == SelectSeq(hist, LAMBDA o : o.op = op /\ o.name = Str(name))
\* the whenCall registrations on n that returned, oldest first
Regs(n) == SelectSeq(OpsOn("whenCall", n), LAMBDA o : o.err = "none")
\* the handle of the latest of them
LatestHandle(n) == Regs(n)[Len(Regs(n))].args[1]
\* the events of kind ev in a log
Only(log, ev) == SelectSeq(log, LAMBDA e : e.ev = ev)

\* C1: after one or more whenCall registrations on a member name, the shadow
\* archive "_CENSOR_"+name holds the function the member held before the first
\* registration, whatever the number of registrations; the visible member is
\* the wrapper of the latest handle.  Without a registration there is no archive.
C1_CapturedOnce ==
  \A n \in Methods :
    IF Regs(n) = <<>> THEN ~hasOwnProperty(own, "inst", CallKey(n))
    ELSE /\ hasOwnProperty(own, "inst", CallKey(n))
         /\ own["inst"][CallKey(n)].value = InitialMember(n)
         /\ hasOwnProperty(own, "inst", n)
         /\ own["inst"][n].value.fn = "callWrapper"
         /\ own["inst"][n].value.handle = LatestHandle(n)

\* C1 witness: two registrations with different handles on the member m
C1_Witness ==
  /\ Len(Regs("m")) >= 2
  /\ Regs("m")[1].args # Regs("m")[2].args

\* C2: after two or more whenCall registrations on a name, a call of the member
\* runs only the latest handle; when that handle passes, the pre-interception
\* function is invoked directly, once, and the call returns its result.
C2_LayeredResolveOriginal ==
  \A n \in Methods :
    (last.op = "call" /\ last.name = Str(n) /\ Len(Regs(n)) >= 2) =>
      /\ \A i \in 1..Len(last.log) :
           last.log[i].ev = "handle" => last.log[i].who = LatestHandle(n).id
      /\ Len(Only(last.log, "handle")) = 1
      /\ LatestHandle(n).kind = "pass" =>
           /\ last.err = "none"
           /\ last.log = <<Event("handle", LatestHandle(n).id, last.args),
                           Event("native", n, last.args)>>
           /\ last.ret = Unwrapped(n, last.args).ret

\* C2 witness: m was registered with h1, then with h2, then called
C2_Witness ==
  /\ last.op = "call" /\ last.name = Str("m")
  /\ Len(Regs("m")) = 2
  /\ Regs("m")[1].args = <<Handle("h1", "pass")>>
  /\ Regs("m")[2].args = <<Handle("h2", "pass")>>

\* C3: when the handle registered on a method just returns ctx.pass(), a call
\* of the wrapped method hands the original exactly the arguments of the call
\* and returns exactly what the unwrapped method returns for them.
C3_ArgReturnFidelity ==
  \A n \in Methods :
    (/\ last.op = "call" /\ last.name = Str(n)
     /\ Regs(n) # <<>>
     /\ LatestHandle(n).kind = "pass") =>
      /\ last.err = Unwrapped(n, last.args).err
      /\ last.ret = Unwrapped(n, last.args).ret
      /\ Only(last.log, "native") = Unwrapped(n, last.args).st.log

\* C3 witness: a call with two arguments of a method registered once
C3_Witness ==
  /\ last.op = "call" /\ last.args = <<Num(2), Num(3)>>
  /\ Len(Regs(last.name.s)) = 1
  /\ LatestHandle(last.name.s).kind = "pass"

\* the on() registrations the history holds, oldest first
Ons == SelectSeq(hist, LAMBDA o : o.op = "on")
\* the listener last assigned to the legacy slot of event since the history's
\* i-th operation, Undef when there is none
AssignedSince(event, i) ==
  LET at == {j \in (i + 1)..Len(hist) :
               hist[j].op = "assign" /\ hist[j].name = Str(event)}
  IN IF at = {} THEN Undef
     ELSE hist[CHOOSE j \in at : \A j2 \in at : j2 <= j].args[1]
\* the position of the first on() in the history
FirstOn == CHOOSE i \in 1..Len(hist) : hist[i].op = "on" /\ \A j \in 1..(i - 1) : hist[j].op # "on"

\* C4: after a single on(E, h), a dispatch through the legacy slot of E, to
\* which the listener L1 was assigned afterwards, invokes h once and h's pass()
\* reaches L1; a dispatch to a listener L2 registered afterwards for E through
\* addEventListener invokes h once and h's pass() reaches L2.
C4_DualPathDelivery ==
  (Len(Ons) = 1 /\ Ons[1].err = "none") =>
    LET E == Ons[1].name.s
        h == Ons[1].args[1]
        ev == <<EventObj(E)>>
    IN /\ (/\ last.op = "dispatchLegacy" /\ last.name = Str(E)
           /\ AssignedSince(E, FirstOn) = Listener("L1")) =>
            /\ last.err = "none"
            /\ last.log = <<Event("handle", h.id, ev), Event("listener", "L1", ev)>>
       /\ (/\ last.op = "dispatchListener" /\ last.name = Str(E)
           /\ listeners["inst"][last.args[1].n].listener.fn = "substitute") =>
            /\ last.err = "none"
            /\ last.log = <<Event("handle", h.id, ev), Event("listener", "L2", ev)>>

\* C4 witness: with L1 assigned and L2 registered after on(E, h), the event is
\* delivered to the registered listener
C4_Witness ==
  /\ Len(Ons) = 1 /\ Ons[1].err = "none"
  /\ AssignedSince(Ons[1].name.s, FirstOn) = Listener("L1")
  /\ last.op = "dispatchListener" /\ last.name = Ons[1].name
  /\ listeners["inst"][last.args[1].n].listener.fn = "substitute"

\* the value last written to the attribute name, the initial one when none was
LastWritten(name) ==
  LET sets == SelectSeq(OpsOn("set", name), LAMBDA o : o.err = "none")
  IN IF sets = <<>> THEN InitSlot["inst"][name] ELSE sets[Len(sets)].args[1]

C6_AsyncPropagation ==
  /\ \A n \in Methods :
       (/\ last.op = "call" /\ last.name = Str(n)
        /\ Regs(n) # <<>>
        /\ LatestHandle(n).kind = "xform") =>
         /\ last.err = "none"
         /\ last.ret = TaskPromise(Len(tasks))
         /\ tasks[Len(tasks)].args = last.args
         /\ tasks[Len(tasks)].wrapped
  /\ \A t \in 1..Len(tasks) :
       tasks[t].kind = "xform" =>
         /\ tasks[t].stage \in {"awaiting", "done", "resolved"}
         /\ tasks[t].stage = "awaiting" => tasks[t].hvalue = Undef
         /\ tasks[t].stage # "resolved" => tasks[t].value = Undef
         /\ tasks[t].stage = "resolved" =>
              /\ tasks[t].value = tasks[t].hvalue
              /\ tasks[t].value =
                   Transform(Await(Unwrapped(ctxs[tasks[t].c.id].name, tasks[t].args).ret))

\* C6 witness: the promise of a wrapped fetch is fulfilled
C6_Witness ==
  \E t \in 1..Len(tasks) :
    /\ tasks[t].kind = "xform" /\ tasks[t].stage = "resolved"
    /\ ctxs[tasks[t].c.id].name = "fetch"

\* C7: censor(v) throws for every v that is neither an object nor a function
\* (null included), returns a CensorObject for an object and a CensorClass for
\* a constructor.
C7_DispatcherClassification ==
  last.op = "censor" =>
    CASE last.name.k = "object" ->
           last.err = "none" /\ eng = [type |-> "CensorObject", object |-> last.name]
      [] last.name.k = "function" ->
           last.err = "none" /\ eng = [type |-> "CensorClass", object |-> last.name]
      [] OTHER -> last.err = "TypeError"

\* C8: the handle of every invocation of a wrapped member passes the arguments
\* of its own invocation to the original, also when it suspends before pass()
\* and another call of the member arrives meanwhile.
C8_FreshContextPerInvocation ==
  \A t \in 1..Len(tasks) :
    (tasks[t].kind = "late" /\ tasks[t].stage \in {"done", "resolved"}) =>
      tasks[t].passed = tasks[t].args

\* C9: a whenCall whose name is not a string, whose member is not callable or
\* whose handle is not callable throws a TypeError and leaves the target, its
\* member slot and its shadow archive included, as it was.
C9_WhenCallPreconditions ==
  [][(/\ last'.op = "whenCall"
      /\ hist' # hist
      /\ \/ TypeOf(last'.name) # "string"
         \/ eng.object.k # "object"
         \/ TypeOf(Lookup(own, eng.object.id, last'.name.s).value) # "function"
         \/ TypeOf(last'.args[1]) # "function")
     => /\ last'.err = "TypeError"
        /\ own' = own /\ slot' = slot /\ ctxs' = ctxs]_vars

\* C9 witness: a registration on m with a handle that is not callable threw,
\* after a registration that archived m
C9_Witness ==
  /\ last.op = "whenCall" /\ last.name = Str("m") /\ last.args = <<Num(5)>>
  /\ last.err = "TypeError"
  /\ Regs("m") # <<>>

\* whether the last operation is a whenAttr on a name for which no level of the
\* hierarchy has a descriptor, and which nothing has touched before
NoDescriptorFound ==
  /\ last.op = "whenAttr"
  /\ getPropertyDescriptor(InitOwn, "inst", last.name.s, DefaultMaxDepth).d = "none"
  /\ \A i \in 1..(Len(hist) - 1) : hist[i].name # last.name

\* C10 witness: a whenAttr on z, which has no descriptor, threw
C10_Witness ==
  /\ NoDescriptorFound
  /\ last.name = Str("z")
  /\ last.err = "TypeError"

\* C10: when whenAttr finds no descriptor for the name, the registration
\* completes: placeholders are archived and the accessor is installed.
C10_RegistrationCompletes ==
  NoDescriptorFound =>
    /\ last.err = "none"
    /\ hasOwnProperty(own, "inst", SetKey(last.name.s))
    /\ hasOwnProperty(own, "inst", GetKey(last.name.s))
    /\ hasOwnProperty(own, "inst", last.name.s)

\* the accessor pair a first whenAttr on name finds on the target nobody
\* intercepted
InitialAccessor(name) == getPropertyDescriptor(InitOwn, "inst", name, DefaultMaxDepth)

\* C11: after any sequence of whenAttr registrations on an attribute name, the
\* shadow archive "_CENSOR_get_"+name, "_CENSOR_set_"+name holds the accessor
\* pair found at the first registration.
C11_AttrCapturedOnce ==
  \A name \in AttrNames :
    (OpsOn("whenAttr", name) # <<>> /\ OpsOn("whenAttr", name)[1].err = "none") =>
      /\ hasOwnProperty(own, "inst", GetKey(name))
      /\ hasOwnProperty(own, "inst", SetKey(name))
      /\ own["inst"][GetKey(name)].value = InitialAccessor(name).get
      /\ own["inst"][SetKey(name)].value = InitialAccessor(name).set

\* C11 witness: x was registered twice
C11_Witness ==
  /\ Len(OpsOn("whenAttr", "x")) = 2
  /\ OpsOn("whenAttr", "x")[1].err = "none"

\* C12: after a single on(E, h), a listener registered through
\* addEventListener for another type T reaches the original registration
\* function unchanged, and a delivery of T does not invoke h.
C12_EventTypeFilter ==
  (Len(Ons) = 1 /\ Ons[1].err = "none") =>
    /\ \A i \in 1..Len(listeners["inst"]) :
         listeners["inst"][i].type # Ons[1].name =>
           listeners["inst"][i].listener = Listener("L2")
    /\ (last.op = "dispatchListener" /\ last.name # Ons[1].name) =>
         Only(last.log, "handle") = <<>>

\* C12 witness: after on(E, h), an event of another type is delivered to a
\* listener registered for it
C12_Witness ==
  /\ Len(Ons) = 1 /\ Ons[1].err = "none"
  /\ hist[1].op = "on"
  /\ last.op = "dispatchListener" /\ last.name # Ons[1].name

\* the value last assigned to the legacy slot of event before the history's
\* i-th operation, Undef when there is none
AssignedBefore(event, i) ==
  LET at == {j \in 1..(i - 1) : hist[j].op = "assign" /\ hist[j].name = Str(event)}
  IN IF at = {} THEN Undef
     ELSE hist[CHOOSE j \in at : \A j2 \in at : j2 <= j].args[1]

\* C13: when the legacy slot of E holds the listener P at the time of a single
\* on(E, h), and nothing is assigned to it afterwards, one dispatch through the
\* legacy slot invokes h once and h's pass() invokes P once.
C13_PreviousListenerKept ==
  (/\ Len(Ons) = 1 /\ Ons[1].err = "none"
   /\ AssignedBefore(Ons[1].name.s, FirstOn) = Listener("L1")
   /\ AssignedSince(Ons[1].name.s, FirstOn) = Undef) =>
    /\ slot["inst"]["on" \o Ons[1].name.s].k = "function"
    /\ (last.op = "dispatchLegacy" /\ last.name = Ons[1].name) =>
         /\ last.err = "none"
         /\ last.log = <<Event("handle", Ons[1].args[1].id, <<EventObj(Ons[1].name.s)>>),
                         Event("listener", "L1", <<EventObj(Ons[1].name.s)>>)>>

\* C13 witness: L1 is assigned, on(E, h) follows, and the event is delivered
\* through the legacy slot
C13_Witness ==
  /\ Len(Ons) = 1 /\ Ons[1].err = "none"
  /\ AssignedBefore(Ons[1].name.s, FirstOn) = Listener("L1")
  /\ AssignedSince(Ons[1].name.s, FirstOn) = Undef
  /\ last.op = "dispatchLegacy" /\ last.name = Ons[1].name

\* the operations of kind op the history holds, oldest first
Ops(op) == SelectSeq(hist, LAMBDA o : o.op = op)

\* C14: an instance a replacement constructor returns is an instance of the
\* original constructor built with the given arguments, and carries every call,
\* attribute and event handle its template holds at that time: the member (or
\* accessor) is the wrapper of the recorded handle and the shadow archive holds
\* the original.  The first construction creates one context per call and
\* attribute entry and two per event entry: every entry is installed once.
C14_ClassReplay ==
  (/\ last.op = "new" /\ last.err = "none"
   /\ globals[last.name.s].fn = "replacement") =>
    LET i == last.ret.id
        tpl == tpls[globals[last.name.s].tpl]
    IN /\ last.ret.k = "object" /\ Proto(i) = "protoC"
       /\ own[i]["d"] = DataProp(last.args[1])
       /\ \A e \in 1..Len(tpl.calls) :
            LET n == tpl.calls[e].key.s IN
            /\ hasOwnProperty(own, i, n)
            /\ own[i][n].value.fn = "callWrapper"
            /\ own[i][n].value.handle = tpl.calls[e].value
            /\ own[i][CallKey(n)].value = InitialMember(n)
       /\ \A e \in 1..Len(tpl.attrs) :
            LET n == tpl.attrs[e].key.s IN
            /\ hasOwnProperty(own, i, n)
            /\ own[i][n].get.fn = "getWrapper" /\ own[i][n].set.fn = "setWrapper"
            /\ own[i][n].get.handles = tpl.attrs[e].value
            /\ own[i][n].set.handles = tpl.attrs[e].value
            /\ own[i][GetKey(n)].value = InitialAccessor(n).get
            /\ own[i][SetKey(n)].value = InitialAccessor(n).set
       /\ \A e \in 1..Len(tpl.events) :
            LET E == tpl.events[e].key.s IN
            /\ hasOwnProperty(own, i, "on" \o E)
            /\ own[i]["on" \o E].set.fn = "setWrapper"
            /\ own[i]["on" \o E].set.handles.set = OnSetHandleFn(E, tpl.events[e].value)
            /\ own[i][SetKey("on" \o E)].value = NativeSet("on" \o E)
            /\ own[i][CallKey("addEventListener")].value = Native("addEventListener")
       /\ tpl.events # <<>> =>
            /\ own[i]["addEventListener"].value.fn = "callWrapper"
            /\ own[i]["addEventListener"].value.handle =
                 OnAddHandleFn(tpl.events[Len(tpl.events)].key.s,
                               tpl.events[Len(tpl.events)].value)
       /\ Len(Ops("new")) = 1 =>
            Len(ctxs) = Len(tpl.calls) + Len(tpl.attrs) + 2 * Len(tpl.events)

\* C14 witness: a call handle and an event handle were recorded after the
\* replacement constructor was installed, and an instance was built through it
C14_Witness ==
  /\ last.op = "new" /\ last.err = "none"
  /\ hist[1].op = "censor"
  /\ globals[last.name.s] = ReplacementFn(1)
  /\ Len(tpls[1].calls) = 1 /\ Len(tpls[1].events) = 1

\* the mapping of a template a registration of kind op writes
MappingOf(tpl, op) ==
  CASE op = "classWhenCall" -> tpl.calls
    [] op = "classWhenAttr" -> tpl.attrs
    [] op = "classOn" -> tpl.events

\* C15: a whenCall, whenAttr or on of a Class Template returns the template and
\* changes only the mapping of its kind in that template, where it records the
\* entry: the constructor, the prototypes, the instances built before, the
\* bindings and the other templates stay as they were.
C15_ClassRegistrationRecords ==
  [][(last'.op \in {"classWhenCall", "classWhenAttr", "classOn"} /\ hist' # hist) =>
       /\ last'.err = "none" /\ last'.ret = This
       /\ own' = own /\ slot' = slot /\ listeners' = listeners /\ ctxs' = ctxs
       /\ globals' = globals /\ eng' = eng
       /\ Len(tpls') = Len(tpls)
       /\ \A t \in 1..Len(tpls) :
            /\ tpls'[t].cls = tpls[t].cls /\ tpls'[t].name = tpls[t].name
            /\ \A op \in {"classWhenCall", "classWhenAttr", "classOn"} :
                 (t # Len(tpls) \/ op # last'.op) =>
                   MappingOf(tpls'[t], op) = MappingOf(tpls[t], op)
       /\ \E e \in 1..Len(MappingOf(tpls'[Len(tpls)], last'.op)) :
            MappingOf(tpls'[Len(tpls)], last'.op)[e] =
              [key |-> last'.name, value |-> last'.args[1]]]_vars

\* C15 witness: a handle is recorded in a template after an instance was built
\* through its replacement constructor
C15_Witness ==
  /\ last.op = "classWhenCall"
  /\ Constructed(own, "n1")
  /\ Len(tpls[Len(tpls)].calls) = 1

\* C16: after a single whenAttr("x", {set}) without a get handle, a read of x
\* still yields what the original getter yields: the value last written.
C16_MembersPreserved ==
  (/\ Len(OpsOn("whenAttr", "x")) = 1
   /\ OpsOn("whenAttr", "x")[1].err = "none"
   /\ ~OpsOn("whenAttr", "x")[1].args[1].hasGet
   /\ last.op = "get" /\ last.name = Str("x")) =>
    /\ last.err = "none"
    /\ last.ret = LastWritten("x")

\* C16 witness: x is registered with a set handle only, then read
C16_Witness ==
  /\ Len(OpsOn("whenAttr", "x")) = 1
  /\ OpsOn("whenAttr", "x")[1].err = "none"
  /\ ~OpsOn("whenAttr", "x")[1].args[1].hasGet
  /\ last.op = "get" /\ last.name = Str("x")

\* the number of next()/pass() calls a handle of the kind performs in one run
Passes(kind) == CASE kind = "replace" -> 0 [] kind = "twice" -> 2 [] OTHER -> 1

\* C17: a call of a member wrapped by whenCall invokes the original once for
\* every next()/pass() its handle performs and never otherwise; a handle that
\* performs none returns its own value and the original does not run.
C17_OriginalPerPass ==
  \A n \in Methods :
    (last.op = "call" /\ last.name = Str(n) /\ Regs(n) # <<>>) =>
      /\ Len(Only(last.log, "handle")) = 1
      /\ Len(Only(last.log, "native")) = Passes(LatestHandle(n).kind)
      /\ \A i \in 1..Len(last.log) : last.log[i].ev = "native" => last.log[i].who = n
      /\ LatestHandle(n).kind = "replace" => last.err = "none" /\ last.ret = Num(0)

\* C17 witness: a call runs the original twice under a handle that passes
\* twice, after a registration whose handle never passes
C17_Witness ==
  /\ last.op = "call" /\ last.name = Str("m")
  /\ Len(Regs("m")) = 2
  /\ Regs("m")[1].args = <<Handle("h5", "replace")>>
  /\ LatestHandle("m").kind = "twice"
  /\ Len(Only(last.log, "native")) = 2

\* the arguments a handle of the kind hands the original for a call with args
Forwarded(kind, args) ==
  CASE kind = "swap" -> <<Num(9)>> \o Tail(args)
    [] kind = "next" -> <<Num(8)>>
    [] OTHER -> args

\* C18: pass() hands the original the arguments the context holds when pass()
\* is called, replacements by the handle included, next(a) hands it exactly a,
\* and both return what the original returns for those arguments.
C18_PassForwardsCurrentArgs ==
  \A n \in Methods :
    (/\ last.op = "call" /\ last.name = Str(n) /\ Regs(n) # <<>>
     /\ LatestHandle(n).kind \in {"pass", "swap", "next", "twice"}) =>
      LET a == Forwarded(LatestHandle(n).kind, last.args) IN
      /\ \A i \in 1..Len(last.log) : last.log[i].ev = "native" => last.log[i].args = a
      /\ Only(last.log, "native") # <<>>
      /\ last.err = Unwrapped(n, a).err
      /\ last.ret = Unwrapped(n, a).ret

\* C18 witness: a call with two arguments under a handle that replaces the
\* first one before it passes
C18_Witness ==
  /\ last.op = "call" /\ last.name = Str("m") /\ last.args = <<Num(2), Num(3)>>
  /\ Regs("m") # <<>>
  /\ LatestHandle("m").kind = "swap"
  /\ last.ret = Unwrapped("m", <<Num(9), Num(3)>>).ret
  /\ last.ret # Unwrapped("m", last.args).ret

\* C19: a registration that is given a handle failing its type check raises
\* the type error inside the registration call, and no type error appears
\* later, when an instance is constructed.
C19_TypeErrorsAtRegistration ==
  /\ (last.op = "classWhenCall" /\ ~typeCheck(last.args[1], "function")) =>
       last.err = "TypeError"
  /\ last.op = "new" => last.err # "TypeError"

\* C19 witness: a handle that is not callable was recorded by the template
\* without an error, and the construction of an instance raises the type error
C19_Witness ==
  /\ last.op = "new" /\ last.err = "TypeError"
  /\ \E i \in 1..Len(hist) :
       /\ hist[i].op = "classWhenCall" /\ hist[i].err = "none"
       /\ ~typeCheck(hist[i].args[1], "function")

C21_ArchiveKeysDistinct ==
  (/\ Len(OpsOn("whenAttr", "x")) = 1 /\ OpsOn("whenAttr", "x")[1].err = "none"
   /\ Len(Regs("get_x")) = 1) =>
    /\ (last.op = "call" /\ last.name = Str("get_x")) =>
         /\ last.log = <<Event("handle", "h1", last.args),
                         Event("native", "get_x", last.args)>>
         /\ last.ret = Unwrapped("get_x", last.args).ret
    /\ (last.op = "get" /\ last.name = Str("x")) =>
         last.log = <<Event("handle", "g", <<>>), Event("nativeGet", "x", <<>>)>>

\* C21 witness: whenCall("get_x"), then whenAttr("x"), then a call of get_x
\* whose pass() runs the getter of x
C21_Witness ==
  /\ Len(hist) = 3
  /\ hist[1].op = "whenCall" /\ hist[1].err = "none"
  /\ hist[2].op = "whenAttr" /\ hist[2].err = "none"
  /\ last.op = "call" /\ last.name = Str("get_x")
  /\ Only(last.log, "nativeGet") # <<>>

\* the handle of the on() registration for the event named name
OnHandleFor(name) == (CHOOSE o \in {Ons[i] : i \in 1..Len(Ons)} : o.name = name).args[1]

\* C22: after on(E1, h1) and on(E2, h2) with E1 # E2, a delivery to a listener
\* registered afterwards through addEventListener for either event invokes
\* the handle registered for that event, once, and no other handle.
C22_DistinctEventsIndependent ==
  (/\ Len(Ons) = 2 /\ Len(hist) >= 2
   /\ hist[1].op = "on" /\ hist[2].op = "on"
   /\ hist[1].err = "none" /\ hist[2].err = "none"
   /\ hist[1].name # hist[2].name
   /\ hist[1].args # hist[2].args
   /\ last.op = "dispatchListener") =>
    Only(last.log, "handle") =
      <<Event("handle", OnHandleFor(last.name).id, <<EventObj(last.name.s)>>)>>

\* C22 witness: two on() registrations for distinct events with distinct
\* handles, then a listener is registered for the first event and the event is
\* delivered to it
C22_Witness ==
  /\ Len(hist) = 4
  /\ hist[1].op = "on" /\ hist[2].op = "on"
  /\ hist[1].err = "none" /\ hist[2].err = "none"
  /\ hist[1].name # hist[2].name
  /\ hist[1].args # hist[2].args
  /\ hist[3].op = "add" /\ hist[3].name = hist[1].name
  /\ last.op = "dispatchListener" /\ last.name = hist[1].name

\* the hierarchy of id: id itself first, then its prototypes in order
RECURSIVE LevelsOf(_)
LevelsOf(id) == IF id = "none" THEN <<>> ELSE <<id>> \o LevelsOf(Proto(id))
\* the positions, in the hierarchy of id, of the levels that own name
Owning(id, name) ==
  {i \in 1..Len(LevelsOf(id)) : hasOwnProperty(own, LevelsOf(id)[i], name)}
\* the nearest of them
Nearest(id, name) == CHOOSE i \in Owning(id, name) : \A j \in Owning(id, name) : i <= j
\* the depth bound a lookup was given
BoundOf(args) == IF Len(args) >= 2 THEN args[2].n ELSE DefaultMaxDepth

\* C23: getPropertyDescriptor(obj, name) returns the own descriptor of the
\* nearest level of obj's hierarchy that owns name when that level is within
\* the depth bound, and none when no level owns name; for an object literal
\* as for a class instance.
C23_LookupFromTarget ==
  last.op = "getPropertyDescriptor" =>
    LET id == last.name.id
        name == last.args[1].s
    IN /\ (Owning(id, name) # {} /\ Nearest(id, name) <= BoundOf(last.args)) =>
            /\ last.err = "none"
            /\ last.ret = own[LevelsOf(id)[Nearest(id, name)]][name]
       /\ Owning(id, name) = {} => last.err = "none" /\ last.ret = NoProp

\* C23 witness: the lookup of a name the object literal owns itself
C23_Witness ==
  /\ last.op = "getPropertyDescriptor" /\ last.name = Obj("plain")
  /\ last.args = <<Str("p")>>
  /\ hasOwnProperty(own, "plain", "p")

\* C24: getPropertyDescriptor(obj, name, maxdepth) inspects at most maxdepth
\* levels, 10 by default: when the nearest level that owns name lies beyond
\* the maxdepth-th level of the hierarchy, the result is none.
C24_LookupDepthBound ==
  last.op = "getPropertyDescriptor" =>
    LET id == last.name.id
        name == last.args[1].s
    IN (Owning(id, name) # {} /\ Nearest(id, name) > BoundOf(last.args)) =>
         last.err = "none" /\ last.ret = NoProp

\* C24 witness: a lookup with the default depth of a name first owned at the
\* eleventh level of the hierarchy returns that level's descriptor
C24_Witness ==
  /\ last.op = "getPropertyDescriptor" /\ last.name = Obj("c0")
  /\ last.args = <<Str("p")>>
  /\ Owning("c0", "p") # {} /\ Nearest("c0", "p") = DefaultMaxDepth + 1
  /\ last.ret = own["c10"]["p"]

\* the reads and writes of x the history holds, oldest first
Deliveries == SelectSeq(hist, LAMBDA o : o.op \in {"get", "set"} /\ o.name = Str("x"))

\* C25: the interceptors one whenAttr installs share one context: when a set
\* handle that suspended before pass() resumes, its pass() runs with the args
\* and the callback the latest delivery on the attribute wrote, a later write's
\* value or a later read's getter, whatever the handle's own delivery was.
C25_SharedAttrContext ==
  (/\ Len(OpsOn("whenAttr", "x")) = 1 /\ OpsOn("whenAttr", "x")[1].err = "none"
   /\ last.op = "resume") =>
    LET d == Deliveries[Len(Deliveries)] IN
    /\ last.err = "none"
    /\ d.op = "set" => last.log = <<Event("nativeSet", "x", d.args)>>
    /\ d.op = "get" =>
         last.log = <<Event("nativeGet", "x", <<>>)>> /\ tasks[last.name.n].passed = <<>>

\* C25 witness: a write of 5 suspends in its handle, a write of 6 follows, and
\* the first handle's pass() hands the original setter 6
C25_Witness ==
  /\ Len(hist) = 3
  /\ hist[1].op = "whenAttr" /\ hist[1].err = "none"
  /\ hist[2].op = "set" /\ hist[2].args = <<Num(5)>>
  /\ hist[3].op = "set" /\ hist[3].args = <<Num(6)>>
  /\ last.op = "resume" /\ last.name = Num(1)
  /\ tasks[1].args = <<Num(5)>>
  /\ last.log = <<Event("nativeSet", "x", <<Num(6)>>)>>

\* C26: after one or more whenAttr calls for x, the first of which installed
\* a get handle that passes, a read of x returns normally, runs the handle
\* once and reaches the original getter exactly once.
C26_PassThroughTerminates ==
  (/\ OpsOn("whenAttr", "x") # <<>>
   /\ OpsOn("whenAttr", "x")[1].err = "none"
   /\ OpsOn("whenAttr", "x")[1].args[1].hasGet
   /\ last.op = "get" /\ last.name = Str("x")) =>
    /\ last.err = "none"
    /\ Len(Only(last.log, "handle")) = 1
    /\ Len(Only(last.log, "nativeGet")) = 1

\* C26 witness: a second whenAttr for x throws, and the read that follows
\* re-enters the installed getter until the stack is exhausted
C26_Witness ==
  /\ Len(OpsOn("whenAttr", "x")) = 2
  /\ OpsOn("whenAttr", "x")[1].err = "none"
  /\ OpsOn("whenAttr", "x")[1].args[1].hasGet
  /\ OpsOn("whenAttr", "x")[2].err = "TypeError"
  /\ last.op = "get" /\ last.name = Str("x")
  /\ last.err = "RangeError"
  /\ Only(last.log, "nativeGet") = <<>>

\* C27: after a single on(E, h), every delivery of E through the legacy slot
\* that invokes h gives it a callable listener as pass-through target: the
\* delivery returns normally and a listener of the page runs for every run of
\* h, also when the slot held no listener or was cleared with null.
C27_HandleSeesRealListener ==
  (/\ Len(Ons) = 1 /\ Ons[1].err = "none"
   /\ last.op = "dispatchLegacy" /\ last.name = Ons[1].name) =>
    /\ last.err = "none"
    /\ Len(Only(last.log, "listener")) = Len(Only(last.log, "handle"))

\* C27 witness: on(E, h) on a target whose legacy slot is empty, then a
\* delivery of E through the slot runs h, whose pass() finds no listener
C27_Witness ==
  /\ Len(hist) = 2
  /\ hist[1].op = "on" /\ hist[1].err = "none"
  /\ last.op = "dispatchLegacy" /\ last.name = hist[1].name
  /\ Only(last.log, "handle") # <<>>
  /\ last.err = "TypeError"

\* C28: an on(E, h) that throws because E is no text, h is not callable, no
\* accessor is found for "on" + E or the target has no callable
\* addEventListener leaves the target as it was: its own properties and its
\* native slots are unchanged.
C28_OnAllOrNothing ==
  [][(/\ hist' # hist /\ last'.op = "on" /\ last'.err # "none"
      /\ \/ TypeOf(last'.name) # "string"
         \/ TypeOf(last'.args[1]) # "function"
         \/ TypeOf(Lookup(own, "inst", "addEventListener").value) # "function"
         \/ getPropertyDescriptor(own, "inst", "on" \o last'.name.s, DefaultMaxDepth).d
              = "none")
     => UNCHANGED <<own, slot, listeners>>]_vars

\* C28 witness: on("click", h) throws on a target whose addEventListener is
\* null, after it archived and redefined the legacy slot
C28_Witness ==
  /\ last.op = "on" /\ last.name = Str("click") /\ last.err = "TypeError"
  /\ Len(Ons) = 1
  /\ Lookup(own, "inst", "addEventListener").value = Null
  /\ hasOwnProperty(own, "inst", SetKey("onclick"))
  /\ hasOwnProperty(own, "inst", "onclick")

\* C29: the registrations an Instance Engine makes, here those a replacement
\* constructor replays on the instance it builds, write only that instance:
\* the prototypes and every instance that existed before keep their own
\* properties, native slots and listeners.
C29_InstanceIsolation ==
  [][\A id \in ObjIds :
       (id \notin Instances \/ Constructed(own, id)) =>
         /\ own'[id] = own[id]
         /\ id \in Instances => slot'[id] = slot[id] /\ listeners'[id] = listeners[id]]_vars

\* C29 witness: a second instance was built and wrapped by the replay of a
\* template with a call handle, next to a first one and to the unwrapped inst
C29_Witness ==
  /\ last.op = "new" /\ last.ret = Obj("n2")
  /\ hasOwnProperty(own, "n2", CallKey("m"))
  /\ hasOwnProperty(own, "n1", CallKey("m"))
  /\ own["inst"] = InitOwn["inst"]
  /\ own["protoC"] = InitOwn["protoC"]

====
